---- MODULE Spec2Model ----
(***************************************************************************)
(* A model of simpleviper: the Viperlet resolver, its options, and Init,   *)
(* which binds a pflag FlagSet, the environment and a configuration file   *)
(* to a viper store and writes the resolved values back to the flags.      *)
(*                                                                         *)
(* Strings are modelled as strings; "" is Go's empty string.  The value    *)
(* "nil" stands for a nil pointer or a nil error.  The viper store is a    *)
(* record of the state Init touches; a store supplied by WithViper is one  *)
(* freshly made by viper.New().  Flags are string flags, as in the         *)
(* examples.                                                               *)
(***************************************************************************)
EXTENDS Naturals, Sequences, FiniteSets, TLC

\* The longest list of options passed to New.
MaxOpts == 2

\* The most variables set in the process environment.
MaxEnvVars == 2

\* The strings a flag default, a command-line argument, an environment
\* variable or a configuration key can hold.
Values == {"", "a", "b", "c"}

\* The flags defined in the flag set.  Every name holds a '-', so that the
\* environment key replacer ("-" to "_") rewrites it.
FlagNames == {"log-level"}

\* The configuration file paths and the environment prefix given to options.
Paths == {"cfg.yml", "alt.yml"}
Prefixes == {"APP"}

\* strings.NewReplacer("-", "_"), or no replacer.
Replacers == {"dash-to-underscore"}

EmptyMap == [k \in {} |-> ""]

VARIABLES
    pc,        \* "New": inside New's loop; "ready": New returned;
               \* "done": Init returned; "panic": Init panicked
    opts,      \* the options New has applied so far (New's argument)
    v,         \* the Viperlet
    flagset0,  \* the flag set as parsed from the command line, before Init
    environ,   \* the process environment
    file,      \* what is on disk at v.configFile
    flagset,   \* the flag set after Init
    store,     \* the viper store after Init
    err        \* the error Init returned

vars == <<pc, opts, v, flagset0, environ, file, flagset, store, err>>

----
\* The Viperlet and its options.

\* new(Viperlet): the zero value.
ZeroViperlet ==
    [viper |-> "nil", bindEnv |-> FALSE, envPrefix |-> "",
     envKeyReplacer |-> "nil", configFile |-> "", allowMissingConfig |-> FALSE]

WithViper(w, viper) == [w EXCEPT !.viper = viper]

WithEnv(w) == [w EXCEPT !.bindEnv = TRUE]

WithEnvPrefix(w, prefix) == [w EXCEPT !.bindEnv = TRUE, !.envPrefix = prefix]

WithEnvKeyReplacer(w, replacer) ==
    [w EXCEPT !.bindEnv = TRUE, !.envKeyReplacer = replacer]

\* A WithConfig that forgets to reset the tolerance of a missing file.
WithConfig_KeepsTolerance(w, config) == [w EXCEPT !.configFile = config]

WithConfig(w, config) ==
    [w EXCEPT !.configFile = config, !.allowMissingConfig = FALSE]

WithOptionalConfig(w, config) ==
    [w EXCEPT !.configFile = config, !.allowMissingConfig = TRUE]

----
\* pflag: a flag set is nil or holds, per name, the default, the current
\* value and whether the flag was set.

Flag(def, val, changed) == [DefValue |-> def, Value |-> val, Changed |-> changed]

NilFlagSet == [nil |-> TRUE, formal |-> EmptyMap]

\* The flag sets fs.Parse can leave: a flag not given on the command line
\* holds its default.
ParsedFlagSets ==
    {[nil |-> FALSE, formal |-> f] :
        f \in {g \in [FlagNames -> {Flag(d, x, c) : d \in Values, x \in Values, c \in BOOLEAN}] :
                  \A n \in FlagNames : ~g[n].Changed => g[n].Value = g[n].DefValue}}

\* flagset.Set(name, value)
Set(fs, name, value) ==
    [fs EXCEPT !.formal[name] = [@ EXCEPT !.Value = value, !.Changed = TRUE]]

----
\* The environment.  EnvName(p, k, r) is the variable named
\* ToUpper(p + "_" + k), or ToUpper(k) when p is empty, with '-' replaced by
\* '_' when r.

EnvName(prefix, key, replaced) == [prefix |-> prefix, key |-> key, replaced |-> replaced]

EnvNames == {EnvName(p, k, r) : p \in {""} \cup Prefixes, k \in FlagNames, r \in BOOLEAN}

\* The environments: at most MaxEnvVars of the variables are set (possibly
\* to "").
Environments ==
    UNION {[S -> Values] : S \in {T \in SUBSET EnvNames : Cardinality(T) <= MaxEnvVars}}

----
\* The file system at the configured path.

FileStates ==
    {[status |-> s, content |-> EmptyMap] : s \in {"missing", "unreadable", "unparsable"}}
    \cup {[status |-> "ok", content |-> c] : c \in UNION {[S -> Values] : S \in SUBSET FlagNames}}

NoFile == [status |-> "missing", content |-> EmptyMap]

----
\* viper: the store.

\* viper.New()
NewViper ==
    [pflags |-> {}, automaticEnvApplied |-> FALSE, envPrefix |-> "",
     envKeyReplacer |-> "nil", configFile |-> "", config |-> EmptyMap]

\* v.Viper(): the store of the Viperlet, made on first use.
Viper(w) == IF w.viper = "nil" THEN [w EXCEPT !.viper = "own"] ELSE w

\* BindPFlags: every flag of the set becomes a known key of the store.  The
\* store keeps a reference to each flag and reads its value when asked.
BindPFlags(s, fs) == [s EXCEPT !.pflags = @ \cup DOMAIN fs.formal]

\* The environment variable the store reads for a key: the prefix is joined
\* and the name upper-cased, then the replacer is applied.
EnvKey(s, key) == EnvName(s.envPrefix, key, s.envKeyReplacer # "nil")

\* getEnv: a variable that is unset or empty counts as absent.
EnvFound(s, env, key) == EnvKey(s, key) \in DOMAIN env /\ env[EnvKey(s, key)] # ""

Found(val) == [found |-> TRUE, val |-> val]
NotFound == [found |-> FALSE, val |-> ""]

\* A lookup that asks the environment before the flag.
find_EnvBeforeFlag(s, fs, env, key, flagDefault) ==
    IF s.automaticEnvApplied /\ EnvFound(s, env, key)
        THEN Found(env[EnvKey(s, key)])
    ELSE IF key \in s.pflags /\ fs.formal[key].Changed
        THEN Found(fs.formal[key].Value)
    ELSE IF key \in DOMAIN s.config
        THEN Found(s.config[key])
    ELSE IF flagDefault /\ key \in s.pflags
        THEN Found(fs.formal[key].Value)
    ELSE NotFound

\* A lookup that asks the configuration file before the environment.
find_ConfigBeforeEnv(s, fs, env, key, flagDefault) ==
    IF key \in s.pflags /\ fs.formal[key].Changed
        THEN Found(fs.formal[key].Value)
    ELSE IF key \in DOMAIN s.config
        THEN Found(s.config[key])
    ELSE IF s.automaticEnvApplied /\ EnvFound(s, env, key)
        THEN Found(env[EnvKey(s, key)])
    ELSE IF flagDefault /\ key \in s.pflags
        THEN Found(fs.formal[key].Value)
    ELSE NotFound

\* The store's lookup of a key: a flag that was set, then the environment,
\* then the configuration file, then (when asked) the flag's default.
find(s, fs, env, key, flagDefault) ==
    IF key \in s.pflags /\ fs.formal[key].Changed
        THEN Found(fs.formal[key].Value)
    ELSE IF s.automaticEnvApplied /\ EnvFound(s, env, key)
        THEN Found(env[EnvKey(s, key)])
    ELSE IF key \in DOMAIN s.config
        THEN Found(s.config[key])
    ELSE IF flagDefault /\ key \in s.pflags
        THEN Found(fs.formal[key].Value)
    ELSE NotFound

IsSet(s, fs, env, key) == find(s, fs, env, key, FALSE).found

GetString(s, fs, env, key) == find(s, fs, env, key, TRUE).val

\* A load that parses the file and drops what it read.
ReadInConfig_DropsContent(s, f) ==
    IF f.status = "missing" THEN [err |-> "ErrNotExist", store |-> s]
    ELSE IF f.status = "unreadable" THEN [err |-> "ErrPermission", store |-> s]
    ELSE IF f.status = "unparsable" THEN [err |-> "ConfigParseError", store |-> s]
    ELSE [err |-> "nil", store |-> s]

\* ReadInConfig: reads the file named by SetConfigFile; the store's
\* configuration changes only when the file was read and parsed.
ReadInConfig(s, f) ==
    IF f.status = "missing" THEN [err |-> "ErrNotExist", store |-> s]
    ELSE IF f.status = "unreadable" THEN [err |-> "ErrPermission", store |-> s]
    ELSE IF f.status = "unparsable" THEN [err |-> "ConfigParseError", store |-> s]
    ELSE [err |-> "nil", store |-> [s EXCEPT !.config = f.content]]

----
\* Viperlet.Init, step by step.

\* Binding the environment without handing the prefix to the store.
BindEnv_DropsPrefix(w, s) ==
    IF w.bindEnv
        THEN [s EXCEPT !.envKeyReplacer =
                           IF w.envKeyReplacer # "nil" THEN w.envKeyReplacer ELSE @,
                       !.automaticEnvApplied = TRUE]
        ELSE s

\* "bind to env"
BindEnv(w, s) ==
    IF w.bindEnv
        THEN [s EXCEPT !.envPrefix = IF w.envPrefix # "" THEN w.envPrefix ELSE @,
                       !.envKeyReplacer =
                           IF w.envKeyReplacer # "nil" THEN w.envKeyReplacer ELSE @,
                       !.automaticEnvApplied = TRUE]
        ELSE s

\* The errors that say the file does not exist.
IsNotExist(e) == e \in {"ConfigFileNotFoundError", "ErrNotExist"}

\* Tolerating a missing file whatever the option says.
ConfigError_AlwaysTolerant(w, e) ==
    IF e = "nil" THEN "nil"
    ELSE IF ~IsNotExist(e) THEN e
    ELSE "nil"

\* With an optional file, swallowing every load error.
ConfigError_SwallowsAll(w, e) ==
    IF e = "nil" THEN "nil"
    ELSE IF ~w.allowMissingConfig THEN e
    ELSE "nil"

\* What Init returns for the result e of ReadInConfig ("nil": Init goes on).
ConfigError(w, e) ==
    IF e = "nil" THEN "nil"
    ELSE IF ~w.allowMissingConfig THEN e
    ELSE IF ~IsNotExist(e) THEN e
    ELSE "nil"

\* "read in config if specified"
LoadConfig(w, s, f) ==
    IF w.configFile # ""
        THEN LET r == ReadInConfig([s EXCEPT !.configFile = w.configFile], f)
             IN  [err |-> ConfigError(w, r.err), store |-> r.store]
        ELSE [err |-> "nil", store |-> s]

\* A write-back without the guard on the empty string.
WriteBack_NoEmptyGuard(s, fs, env) ==
    [fs EXCEPT !.formal =
        [n \in DOMAIN fs.formal |->
            IF IsSet(s, fs, env, n)
                THEN Set(fs, n, GetString(s, fs, env, n)).formal[n]
                ELSE fs.formal[n]]]

\* "set any values from viper as flags": VisitAll over the flags.  A lookup
\* reads no flag but the one it is about, so the visits do not interfere.
WriteBack(s, fs, env) ==
    [fs EXCEPT !.formal =
        [n \in DOMAIN fs.formal |->
            IF IsSet(s, fs, env, n) /\ GetString(s, fs, env, n) # ""
                THEN Set(fs, n, GetString(s, fs, env, n)).formal[n]
                ELSE fs.formal[n]]]

\* Init(flagset) on the Viperlet w whose store is s, with the environment env
\* and f on disk at w.configFile.  BindPFlags fails only for a nil flag,
\* which a FlagSet never visits.  VisitAll on a nil flag set dereferences it.
ViperletInit(w, s, fs, env, f) ==
    LET s1 == IF ~fs.nil THEN BindPFlags(s, fs) ELSE s
        s2 == BindEnv(w, s1)
        ld == LoadConfig(w, s2, f)
    IN  IF ld.err # "nil"
            THEN [pc |-> "done", err |-> ld.err, store |-> ld.store, flagset |-> fs]
        ELSE IF fs.nil
            THEN [pc |-> "panic", err |-> "nil", store |-> ld.store, flagset |-> fs]
        ELSE [pc |-> "done", err |-> "nil", store |-> ld.store,
              flagset |-> WriteBack(ld.store, fs, env)]

----
\* The state machine: New applies its options one by one and returns; Init
\* is then called once, on a parsed (or nil) flag set.

Option(name, arg) == [name |-> name, arg |-> arg]

Init ==
    /\ pc = "New"
    /\ opts = << >>
    /\ v = ZeroViperlet
    /\ flagset0 = NilFlagSet
    /\ environ = EmptyMap
    /\ file = NoFile
    /\ flagset = NilFlagSet
    /\ store = NewViper
    /\ err = "nil"

Apply(o, w) ==
    /\ pc = "New"
    /\ Len(opts) < MaxOpts
    /\ v' = w
    /\ opts' = Append(opts, o)
    /\ UNCHANGED <<pc, flagset0, environ, file, flagset, store, err>>

ApplyWithViper == Apply(Option("WithViper", "ext"), WithViper(v, "ext"))

ApplyWithEnv == Apply(Option("WithEnv", ""), WithEnv(v))

ApplyWithEnvPrefix ==
    \E p \in Prefixes : Apply(Option("WithEnvPrefix", p), WithEnvPrefix(v, p))

ApplyWithEnvKeyReplacer ==
    \E r \in Replacers : Apply(Option("WithEnvKeyReplacer", r), WithEnvKeyReplacer(v, r))

ApplyWithConfig ==
    \E c \in Paths : Apply(Option("WithConfig", c), WithConfig(v, c))

ApplyWithOptionalConfig ==
    \E c \in Paths : Apply(Option("WithOptionalConfig", c), WithOptionalConfig(v, c))

\* "return v": the options were New's argument and are gone with its frame.
NewReturn ==
    /\ pc = "New"
    /\ pc' = "ready"
    /\ opts' = << >>
    /\ UNCHANGED <<v, flagset0, environ, file, flagset, store, err>>

CallInit ==
    /\ pc = "ready"
    /\ \E fs \in {NilFlagSet} \cup ParsedFlagSets, env \in Environments,
          f \in (IF v.configFile # "" THEN FileStates ELSE {NoFile}) :
          LET r == ViperletInit(Viper(v), NewViper, fs, env, f)
          IN  /\ flagset0' = fs
              /\ environ' = env
              /\ file' = f
              /\ v' = Viper(v)
              /\ pc' = r.pc
              /\ err' = r.err
              /\ store' = r.store
              /\ flagset' = r.flagset
    /\ UNCHANGED opts

Next ==
    \/ ApplyWithViper
    \/ ApplyWithEnv
    \/ ApplyWithEnvPrefix
    \/ ApplyWithEnvKeyReplacer
    \/ ApplyWithConfig
    \/ ApplyWithOptionalConfig
    \/ NewReturn
    \/ CallInit

Spec == Init /\ [][Next]_vars

----
\* What the properties speak of.

Returned == pc = "done"
Succeeded == pc = "done" /\ err = "nil"
InitRan == pc \in {"done", "panic"}

\* The flags of the flag set handed to Init.
Flags == DOMAIN flagset0.formal

\* The flag was given on the command line; its value there.
OnCommandLine(n) == flagset0.formal[n].Changed
CommandLineValue(n) == flagset0.formal[n].Value

\* The environment variable that carries the flag's name under the options
\* of the Viperlet, whether it is set, and whether it holds a value.
EnvVarOf(n) == EnvName(v.envPrefix, n, v.envKeyReplacer # "nil")
InEnvironment(n) == EnvVarOf(n) \in DOMAIN environ
EnvHolds(n) == InEnvironment(n) /\ environ[EnvVarOf(n)] # ""

\* The configuration file was configured and read, and holds the name.
InFile(n) == v.configFile # "" /\ file.status = "ok" /\ n \in DOMAIN file.content

RequiredFile == v.configFile # "" /\ ~v.allowMissingConfig
OptionalFile == v.configFile # "" /\ v.allowMissingConfig

\* The last WithConfig or WithOptionalConfig of a list of options; none:
\* the empty path, no tolerance.
RECURSIVE LastConfigOption(_)
LastConfigOption(os) ==
    IF os = << >> THEN Option("none", "")
    ELSE IF os[Len(os)].name \in {"WithConfig", "WithOptionalConfig"} THEN os[Len(os)]
    ELSE LastConfigOption(SubSeq(os, 1, Len(os) - 1))

----
\* C1: a flag set on the command line, in the environment (binding enabled)
\* and in the configuration file, with three distinct non-empty values, holds
\* its command-line value after a successful Init.
C1_Precedence ==
    Succeeded =>
        \A n \in Flags :
            (/\ OnCommandLine(n) /\ v.bindEnv /\ EnvHolds(n) /\ InFile(n)
             /\ CommandLineValue(n) # "" /\ file.content[n] # ""
             /\ CommandLineValue(n) # environ[EnvVarOf(n)]
             /\ CommandLineValue(n) # file.content[n]
             /\ environ[EnvVarOf(n)] # file.content[n])
            => flagset.formal[n].Value = CommandLineValue(n)

C1_Witness ==
    /\ Succeeded
    /\ \E n \in Flags :
          /\ OnCommandLine(n) /\ v.bindEnv /\ EnvHolds(n) /\ InFile(n)
          /\ CommandLineValue(n) # "" /\ file.content[n] # ""
          /\ CommandLineValue(n) # environ[EnvVarOf(n)]
          /\ CommandLineValue(n) # file.content[n]
          /\ environ[EnvVarOf(n)] # file.content[n]
          /\ flagset.formal[n].Value = CommandLineValue(n)

\* C2: a flag not set on the command line, with environment binding enabled
\* and a non-empty value in the environment, holds the environment value
\* after a successful Init, whatever its default and whatever the
\* configuration file holds.
C2_EnvFallback ==
    Succeeded =>
        \A n \in Flags :
            (~OnCommandLine(n) /\ v.bindEnv /\ EnvHolds(n))
            => flagset.formal[n].Value = environ[EnvVarOf(n)]

C2_Witness ==
    /\ Succeeded
    /\ \E n \in Flags :
          /\ ~OnCommandLine(n) /\ v.bindEnv /\ EnvHolds(n)
          /\ flagset0.formal[n].DefValue \notin {"", environ[EnvVarOf(n)]}
          /\ InFile(n) /\ file.content[n] \notin {"", environ[EnvVarOf(n)]}
          /\ flagset.formal[n].Value = environ[EnvVarOf(n)]

\* C3, as stated: a flag present only in the configuration file (not on the
\* command line; not set in the environment, or binding disabled) holds the
\* file value after a successful Init, whatever its default.
C3_FileFallback_Stated ==
    Succeeded =>
        \A n \in Flags :
            (~OnCommandLine(n) /\ InFile(n) /\ (~v.bindEnv \/ ~InEnvironment(n)))
            => flagset.formal[n].Value = file.content[n]

\* C3, amended: the same for a non-empty file value; an empty file value
\* leaves the flag at its default.
C3_FileFallback ==
    Succeeded =>
        \A n \in Flags :
            (~OnCommandLine(n) /\ InFile(n) /\ (~v.bindEnv \/ ~InEnvironment(n)))
            => flagset.formal[n].Value =
                   IF file.content[n] # "" THEN file.content[n]
                   ELSE flagset0.formal[n].DefValue

C3_Witness ==
    /\ Succeeded
    /\ \E n \in Flags :
          /\ ~OnCommandLine(n) /\ InFile(n) /\ (~v.bindEnv \/ ~InEnvironment(n))
          /\ file.content[n] # ""
          /\ flagset0.formal[n].DefValue \notin {"", file.content[n]}
          /\ flagset.formal[n].Value = file.content[n]

\* C4: in the write-back, a flag whose resolved value in the store is the
\* empty string keeps the value (and the set mark) that parsing gave it,
\* also when the store reports the key as set.
C4_EmptyValueGuard ==
    Succeeded =>
        \A n \in Flags :
            GetString(store, flagset0, environ, n) = ""
            => flagset.formal[n] = flagset0.formal[n]

C4_Witness ==
    /\ Succeeded
    /\ \E n \in Flags :
          /\ IsSet(store, flagset0, environ, n)
          /\ GetString(store, flagset0, environ, n) = ""
          /\ ~OnCommandLine(n)
          /\ flagset0.formal[n].DefValue # ""
          /\ flagset.formal[n] = flagset0.formal[n]

\* C5: with a required configuration file that does not exist, Init returns
\* an error and every flag is as parsing left it.
C5_MissingRequiredFile ==
    (InitRan /\ RequiredFile /\ file.status = "missing")
    => (Returned /\ err # "nil" /\ flagset = flagset0)

C5_Witness ==
    /\ Returned /\ RequiredFile /\ file.status = "missing"
    /\ err = "ErrNotExist"
    /\ \E n \in Flags : ~OnCommandLine(n) /\ v.bindEnv /\ EnvHolds(n)
    /\ flagset = flagset0

\* C6: with an optional configuration file that does not exist, Init
\* returns no error and every flag ends as it would with no configuration
\* file configured.
C6_MissingOptionalFile ==
    (InitRan /\ OptionalFile /\ file.status = "missing")
    => /\ Returned /\ err = "nil"
       /\ flagset = ViperletInit([v EXCEPT !.configFile = ""], NewViper,
                                 flagset0, environ, NoFile).flagset

\* C7: a configuration file that exists and cannot be read or parsed makes
\* Init return that error and write nothing back, required or optional.
C7_LoadErrorsFatal ==
    (InitRan /\ v.configFile # "" /\ file.status \in {"unreadable", "unparsable"})
    => /\ Returned
       /\ err = (IF file.status = "unreadable" THEN "ErrPermission" ELSE "ConfigParseError")
       /\ flagset = flagset0

C7_Witness ==
    /\ Returned /\ OptionalFile /\ file.status = "unparsable"
    /\ err = "ConfigParseError"
    /\ \E n \in Flags : ~OnCommandLine(n) /\ v.bindEnv /\ EnvHolds(n)
    /\ flagset = flagset0

\* C8: a flag with no value on the command line, none in the environment
\* and none in the configuration file, and a non-empty default, still holds
\* its default after a successful Init.
C8_DefaultPreserved ==
    Succeeded =>
        \A n \in Flags :
            (/\ ~OnCommandLine(n) /\ ~InEnvironment(n) /\ ~InFile(n)
             /\ flagset0.formal[n].DefValue # "")
            => flagset.formal[n].Value = flagset0.formal[n].DefValue

C8_Witness ==
    /\ Succeeded
    /\ v.bindEnv /\ environ # EmptyMap
    /\ v.configFile # "" /\ file.status = "ok"
    /\ \E n \in Flags :
          /\ ~OnCommandLine(n) /\ ~InEnvironment(n) /\ ~InFile(n)
          /\ flagset0.formal[n].DefValue # ""
          /\ flagset.formal[n].Value = flagset0.formal[n].DefValue

\* C9: while New applies its options, the path and the tolerance of the
\* Viperlet are those of the last WithConfig or WithOptionalConfig applied,
\* and so is what Init makes of a missing file: a missing file is an error
\* exactly when a path is set and the last of the two was WithConfig.
C9_LastOptionWins ==
    pc = "New" =>
        LET last == LastConfigOption(opts) IN
        /\ v.configFile = last.arg
        /\ v.allowMissingConfig = (last.name = "WithOptionalConfig")
        /\ (LoadConfig(v, NewViper, NoFile).err # "nil") = (last.name = "WithConfig")

C9_Witness ==
    /\ pc = "New"
    /\ Len(opts) = 2
    /\ opts[1].name = "WithOptionalConfig"
    /\ opts[2].name = "WithConfig"
    /\ opts[1].arg # opts[2].arg
    /\ v.configFile = opts[2].arg
    /\ ~v.allowMissingConfig

\* C10: Init on a nil flag set completes without a panic, returning nil or
\* the error of the configuration file load.
C10_NilFlagSetSafe ==
    (InitRan /\ flagset0.nil) => Returned

====
